---- MODULE Spec2Model ----
(***************************************************************************)
(* A model of the spatial partitioner of googlevr/blocks                   *)
(* (NativePlugin/libAssImp/NativeOctree/SpatialPartitioner.{h,cpp}):       *)
(* a dense vector of AABBs, an id -> slot map, and three linear-scan       *)
(* queries with a caller-owned, bounded output buffer.                     *)
(*                                                                         *)
(* Representation.  An __m128 is a 4-tuple <<lane0, lane1, lane2, lane3>>. *)
(* Lanes 0..2 hold the spatial floats; the model draws them from small     *)
(* integers (read: multiples of 0.25), on which float +, - and the         *)
(* comparisons are exact.  Lane 3 holds the 32 bits of the id seen as a    *)
(* float; the model keeps it as the signed 32-bit integer with those bits  *)
(* and gives the float operations the code applies to it (add/subtract     *)
(* +0.0, compare) their IEEE-754 meaning under the default MXCSR.          *)
(***************************************************************************)
EXTENDS Integers, Sequences, FiniteSets

VARIABLES elementVector, idToIndex, call, pre, undo, live, returnArray, ret, crashed,
          SpatialPartitionerMap, nextSpatialPartitionerId, handles, regCall, regPre,
          manager, fbxScene, groupMap, rootChildren, exporting, fbxCall

storeVars == <<elementVector, idToIndex, call, pre, undo, live>>
regVars == <<SpatialPartitionerMap, nextSpatialPartitionerId, handles, regCall, regPre>>
fbxVars == <<manager, fbxScene, groupMap, rootChildren, exporting, fbxCall>>
vars == <<storeVars, returnArray, ret, crashed, regVars, fbxVars>>

(***************************************************************************)
(* Bounds of the model.                                                    *)
(***************************************************************************)
MaxLen == 3
MaxCap == 2

(***************************************************************************)
(* 32-bit patterns read as IEEE-754 single precision floats.               *)
(***************************************************************************)
MinInt32 == (-2147483647) - 1
ExpMask == 255 * (2 ^ 23)
QuietBit == 2 ^ 22
SignalingNaNId == ExpMask + 1
QuietNaNId == ExpMask + QuietBit + 1

Magnitude(b) == IF b < 0 THEN b - MinInt32 ELSE b
IsNaN(b) == Magnitude(b) > ExpMask
IsSNaN(b) == IsNaN(b) /\ ((Magnitude(b) \div QuietBit) % 2 = 0)
Quieted(b) == IF IsSNaN(b) THEN b + QuietBit ELSE b
FloatKey(b) == IF b < 0 THEN 0 - Magnitude(b) ELSE b
FloatLt(a, b) == ~IsNaN(a) /\ ~IsNaN(b) /\ FloatKey(a) < FloatKey(b)
FloatGt(a, b) == FloatLt(b, a)
\* x + (+0.0) and x - (+0.0) in round-to-nearest: a NaN comes back quieted,
\* -0.0 + +0.0 is +0.0, every other value comes back unchanged.
FloatAddZero(b) == IF IsNaN(b) THEN Quieted(b) ELSE IF b = MinInt32 THEN 0 ELSE b
FloatSubZero(b) == IF IsNaN(b) THEN Quieted(b) ELSE b

(***************************************************************************)
(* SSE intrinsics on 4-tuples.                                             *)
(***************************************************************************)
MmSetPs(e3, e2, e1, e0) == <<e0, e1, e2, e3>>
MmAddPs(a, b) == [i \in 1..4 |-> IF i < 4 THEN a[i] + b[i] ELSE FloatAddZero(a[i])]
\* The subtraction with lane 3 computed as the addition computes it.
MmSubPsLaneAdded(a, b) == [i \in 1..4 |-> IF i < 4 THEN a[i] - b[i] ELSE FloatAddZero(a[i])]
MmSubPs(a, b) == [i \in 1..4 |-> IF i < 4 THEN a[i] - b[i] ELSE FloatSubZero(a[i])]
MmCmpltPs(a, b) == [i \in 1..4 |-> IF i < 4 THEN a[i] < b[i] ELSE FloatLt(a[i], b[i])]
MmCmpgtPs(a, b) == [i \in 1..4 |-> IF i < 4 THEN a[i] > b[i] ELSE FloatGt(a[i], b[i])]
MmOrPs(a, b) == [i \in 1..4 |-> a[i] \/ b[i]]
LaneBit(t, i) == IF t[i] THEN 2 ^ (i - 1) ELSE 0
MmMovemaskPs(t) == LaneBit(t, 1) + LaneBit(t, 2) + LaneBit(t, 3) + LaneBit(t, 4)
\* The truth test taken over all four lanes of the mask.
AllFourLanes(m) == m % 16
LowThreeLanes(m) == m % 8

(***************************************************************************)
(* struct AABB                                                             *)
(***************************************************************************)
AABB(id, center, extents) ==
  LET v_center == MmSetPs(id, center[3], center[2], center[1])
      v_extents == MmSetPs(0, extents[3], extents[2], extents[1])
  IN  [vecmax |-> MmAddPs(v_center, v_extents),
       vecmin |-> MmSubPs(v_center, v_extents)]

IdFromAABB(box) == box.vecmax[4]

(***************************************************************************)
(* The predicates.                                                         *)
(***************************************************************************)
\* intersects with the mask 3 in place of 7: the z lane is left out of the test.
intersectsMaskTwoLanes(volume0, volume1) ==
  LET temp == MmCmpltPs(volume0.vecmax, volume1.vecmin)
      temp2 == MmCmpgtPs(volume0.vecmin, volume1.vecmax)
  IN  (MmMovemaskPs(MmOrPs(temp, temp2)) % 4) <= 0

intersects(volume0, volume1) ==
  LET temp == MmCmpltPs(volume0.vecmax, volume1.vecmin)
      temp2 == MmCmpgtPs(volume0.vecmin, volume1.vecmax)
  IN  LowThreeLanes(MmMovemaskPs(MmOrPs(temp, temp2))) <= 0

intersectsOrig(volume0, volume1) ==
  \A i \in 1..3 :
    ~(volume0.vecmax[i] < volume1.vecmin[i] \/ volume0.vecmin[i] > volume1.vecmax[i])

contains(volume0, volume1) ==
  LET temp == MmCmpgtPs(volume0.vecmin, volume1.vecmin)
      temp2 == MmCmpltPs(volume0.vecmax, volume1.vecmax)
  IN  LowThreeLanes(MmMovemaskPs(MmOrPs(temp, temp2))) <= 0

(***************************************************************************)
(* Inputs the calls are drawn from.  Coordinates are in units of 0.25, so  *)
(* <<0,0,0>>, <<2,2,2>> is the box of the collision test (center 0,        *)
(* extents 0.5) and <<5,5,5>> is its second query center 1.25.             *)
(***************************************************************************)
Ids == {1, 2, 3, MinInt32}
\* The ids HasItem is asked about: those and the id no call ever passes.
AskedIds == Ids \cup {0}
QueryIds == {1, 2, 3}
AnyIds == {1, MinInt32}
StoredShapes ==
  { <<<<0, 0, 0>>, <<2, 2, 2>>>>,
    <<<<4, 0, 0>>, <<2, 2, 2>>>>,
    <<<<0, 1, 0>>, <<1, 1, 1>>>>,
    <<<<3, 0, 0>>, <<-3, 1, 1>>>> }
MutationShapes ==
  { <<<<0, 0, 0>>, <<2, 2, 2>>>>,
    <<<<4, 0, 0>>, <<2, 2, 2>>>> }
QueryShapes ==
  { <<<<0, 0, 0>>, <<2, 2, 2>>>>,
    <<<<5, 5, 5>>, <<2, 2, 2>>>>,
    <<<<0, 0, 5>>, <<2, 2, 2>>>>,
    <<<<0, -4, 0>>, <<2, 1, 2>>>>,
    <<<<2, 0, 0>>, <<4, 4, 4>>>>,
    <<<<0, 0, 0>>, <<1, 2, 2>>>> }
Capacities == 0..MaxCap
NoVector == <<0, 0, 0>>

(***************************************************************************)
(* std::unordered_map<int, int> as a function on the keys it holds.        *)
(* operator[] inserts a value-initialised (0) entry for a missing key.     *)
(***************************************************************************)
EmptyMap == [k \in {} |-> 0]
MapSet(map, k, v) == [x \in (DOMAIN map) \cup {k} |-> IF x = k THEN v ELSE map[x]]
MapSubscript(map, k) == IF k \in DOMAIN map THEN map ELSE MapSet(map, k, 0)
\* erase() left out: the key stays in the map.
MapEraseForgotten(map, k) == map
MapErase(map, k) == [x \in (DOMAIN map) \ {k} |-> map[x]]

(***************************************************************************)
(* std::vector<AABB>: slot i of the code is element i + 1 of the sequence. *)
(***************************************************************************)
Size(vec) == Len(vec)
Slot(vec, i) == vec[i + 1]
SetSlot(vec, i, box) == [vec EXCEPT ![i + 1] = box]
\* pop_back() taking the first element away in place of the last.
PopFront(vec) == Tail(vec)
PopBack(vec) == SubSeq(vec, 1, Len(vec) - 1)
\* A subscript outside [0, size) is undefined behaviour: a checked build
\* aborts, an unchecked one writes into storage that is no element.
Outcomes == {"unchecked", "abort"}

Snapshot == [vec |-> elementVector, map |-> idToIndex]
Call(op, id, center, extents, cap) ==
  [op |-> op, id |-> id, center |-> center, extents |-> extents, cap |-> cap]
NoResult == /\ returnArray' = EmptyMap
            /\ ret' = 0
\* History of the run, kept for stating the properties: the last call, the
\* store as it was before it, for a RemoveItem that directly follows the
\* AddItem of the same id, the length the sequence had before that AddItem,
\* and the ids passed to AddItem and not to RemoveItem since.
NoUndo == [follows |-> FALSE, len |-> 0]
Record(c) == /\ call' = c
             /\ pre' = Snapshot
             /\ undo' = IF c.op = "RemoveItem" /\ call.op = "AddItem" /\ call.id = c.id
                          THEN [follows |-> TRUE, len |-> Len(pre.vec)]
                          ELSE NoUndo
             /\ live' = IF c.op = "AddItem" THEN live \cup {c.id}
                         ELSE IF c.op = "RemoveItem" THEN live \ {c.id}
                         ELSE live

Init ==
  /\ elementVector = <<>>
  /\ idToIndex = EmptyMap
  /\ call = Call("new", 0, NoVector, NoVector, 0)
  /\ pre = [vec |-> <<>>, map |-> EmptyMap]
  /\ undo = NoUndo
  /\ live = {}
  /\ returnArray = EmptyMap
  /\ ret = 0
  /\ crashed = FALSE
  /\ SpatialPartitionerMap = EmptyMap
  /\ nextSpatialPartitionerId = 0
  /\ handles = <<>>
  /\ regCall = [op |-> "load", handle |-> 0, id |-> 0, cap |-> 0]
  /\ regPre = EmptyMap
  /\ manager = 0
  /\ fbxScene = 0
  /\ groupMap = EmptyMap
  /\ rootChildren = {}
  /\ exporting = FALSE
  /\ fbxCall = [op |-> "load", groupKey |-> 0, ok |-> TRUE, parent |-> [owner |-> 0, kind |-> "none", key |-> 0]]

(***************************************************************************)
(* The three mutating calls as functions of the store they are called on.  *)
(* A store is the pair of members [vec, map]; the effect of a call is the  *)
(* store it leaves and whether it subscripted elementVector out of range.  *)
(***************************************************************************)
Effect(vec, map, oob) == [vec |-> vec, map |-> map, oob |-> oob]

AddItemEffect(s, itemId, itemBoundsCenter, itemBoundsSize) ==
  Effect(Append(s.vec, AABB(itemId, itemBoundsCenter, itemBoundsSize)),
         MapSet(s.map, itemId, Size(s.vec)),
         FALSE)

UpdateItemEffect(s, itemId, itemBoundsCenter, itemBoundsSize) ==
  LET map1 == MapSubscript(s.map, itemId)
      index == map1[itemId]
  IN  IF index < Size(s.vec)
        THEN Effect(SetSlot(s.vec, index, AABB(itemId, itemBoundsCenter, itemBoundsSize)),
                    map1, FALSE)
        ELSE Effect(s.vec, map1, TRUE)

\* The branch RemoveItem takes for size() > 1, as a function of any store.
\* On an empty sequence size() - 1 wraps (size_t) and equals no index: the
\* branch then reads and pops a last element that does not exist.
RemoveItemGeneral(s, itemId) ==
  LET map1 == MapSubscript(s.map, itemId)
      index == map1[itemId]
      last == Size(s.vec) - 1
  IN  IF index = last
        THEN Effect(PopBack(s.vec), MapErase(map1, itemId), FALSE)
        ELSE IF Size(s.vec) = 0
               THEN Effect(s.vec, MapErase(map1, itemId), TRUE)
               ELSE LET lastId == IdFromAABB(Slot(s.vec, last))
                    IN  Effect(IF index < Size(s.vec)
                                 THEN PopBack(SetSlot(s.vec, index, Slot(s.vec, last)))
                                 ELSE PopBack(s.vec),
                               MapSet(MapErase(map1, itemId), lastId, index),
                               ~(index < Size(s.vec)))

RemoveItemEffect(s, itemId) ==
  IF Size(s.vec) > 1
    THEN RemoveItemGeneral(s, itemId)
    ELSE Effect(<<>>, EmptyMap, FALSE)

\* The store takes the effect; an out-of-range subscript ends either way.
Apply(eff) ==
  /\ elementVector' = eff.vec
  /\ idToIndex' = eff.map
  /\ IF eff.oob
       THEN \E o \in Outcomes : crashed' = (o = "abort")
       ELSE UNCHANGED crashed

(***************************************************************************)
(* SpatialPartitioner::AddItem                                             *)
(***************************************************************************)
AddItem(itemId, itemBoundsCenter, itemBoundsSize) ==
  /\ ~crashed
  /\ Size(elementVector) < MaxLen
  /\ Apply(AddItemEffect(Snapshot, itemId, itemBoundsCenter, itemBoundsSize))
  /\ Record(Call("AddItem", itemId, itemBoundsCenter, itemBoundsSize, 0))
  /\ NoResult

(***************************************************************************)
(* SpatialPartitioner::UpdateItem                                          *)
(***************************************************************************)
UpdateItem(itemId, itemBoundsCenter, itemBoundsSize) ==
  /\ ~crashed
  /\ Apply(UpdateItemEffect(Snapshot, itemId, itemBoundsCenter, itemBoundsSize))
  /\ Record(Call("UpdateItem", itemId, itemBoundsCenter, itemBoundsSize, 0))
  /\ NoResult

(***************************************************************************)
(* SpatialPartitioner::RemoveItem                                          *)
(***************************************************************************)
RemoveItem(itemId) ==
  /\ ~crashed
  /\ Apply(RemoveItemEffect(Snapshot, itemId))
  /\ Record(Call("RemoveItem", itemId, NoVector, NoVector, 0))
  /\ NoResult

(***************************************************************************)
(* The scan loops of the three queries.  `it` is the iterator (an index    *)
(* into the sequence), `out` the cells of returnArray written so far and   *)
(* curNumResults the running count; the result is the pair at the return.  *)
(***************************************************************************)
Returned(out, curNumResults) == [returnArray |-> out, ret |-> curNumResults]

RECURSIVE ContainedByLoop(_, _, _, _, _, _)
ContainedByLoop(vec, testAABB, returnArrayMaxSize, it, out, curNumResults) ==
  IF it > Len(vec)
    THEN Returned(out, curNumResults)
    ELSE IF contains(testAABB, vec[it])
           THEN LET out1 == MapSet(out, curNumResults, IdFromAABB(vec[it]))
                    n1 == curNumResults + 1
                IN  IF n1 >= returnArrayMaxSize
                      THEN Returned(out1, n1)
                      ELSE ContainedByLoop(vec, testAABB, returnArrayMaxSize, it + 1, out1, n1)
           ELSE ContainedByLoop(vec, testAABB, returnArrayMaxSize, it + 1, out, curNumResults)

RECURSIVE IntersectedByLoopLateStop(_, _, _, _, _, _)
\* IntersectedBy's loop with the early return tested by > in place of >=.
IntersectedByLoopLateStop(vec, testAABB, returnArrayMaxSize, it, out, curNumResults) ==
  IF it > Len(vec)
    THEN Returned(out, curNumResults)
    ELSE IF intersects(testAABB, vec[it])
           THEN LET isectId == IdFromAABB(vec[it])
                    out1 == MapSet(out, curNumResults, isectId)
                    n1 == curNumResults + 1
                IN  IF n1 > returnArrayMaxSize
                      THEN Returned(out1, n1)
                      ELSE IntersectedByLoopLateStop(vec, testAABB, returnArrayMaxSize, it + 1, out1, n1)
           ELSE IntersectedByLoopLateStop(vec, testAABB, returnArrayMaxSize, it + 1, out, curNumResults)

RECURSIVE IntersectedByLoop(_, _, _, _, _, _)
IntersectedByLoop(vec, testAABB, returnArrayMaxSize, it, out, curNumResults) ==
  IF it > Len(vec)
    THEN Returned(out, curNumResults)
    ELSE IF intersects(testAABB, vec[it])
           THEN LET isectId == IdFromAABB(vec[it])
                    out1 == MapSet(out, curNumResults, isectId)
                    n1 == curNumResults + 1
                IN  IF n1 >= returnArrayMaxSize
                      THEN Returned(out1, n1)
                      ELSE IntersectedByLoop(vec, testAABB, returnArrayMaxSize, it + 1, out1, n1)
           ELSE IntersectedByLoop(vec, testAABB, returnArrayMaxSize, it + 1, out, curNumResults)

RECURSIVE IntersectedByOrigLoop(_, _, _, _, _, _)
IntersectedByOrigLoop(vec, testAABB, returnArrayMaxSize, it, out, curNumResults) ==
  IF it > Len(vec)
    THEN Returned(out, curNumResults)
    ELSE IF intersectsOrig(testAABB, vec[it])
           THEN LET isectid == IdFromAABB(vec[it])
                    out1 == MapSet(out, curNumResults, isectid)
                    n1 == curNumResults + 1
                IN  IF n1 >= returnArrayMaxSize
                      THEN Returned(out1, n1)
                      ELSE IntersectedByOrigLoop(vec, testAABB, returnArrayMaxSize, it + 1, out1, n1)
           ELSE IntersectedByOrigLoop(vec, testAABB, returnArrayMaxSize, it + 1, out, curNumResults)

\* The caller's buffer holds returnArrayMaxSize ints: a write at an index
\* from returnArrayMaxSize on leaves the buffer, which is undefined behaviour
\* (the write lands in the memory that follows, or the process aborts).
Overrun(out, returnArrayMaxSize) == \E k \in DOMAIN out : k >= returnArrayMaxSize

\* A query that takes what it reports out of the store: the last slot goes.
QueryReturnDraining(op, testCenter, testExtents, returnArrayMaxSize, r) ==
  /\ returnArray' = r.returnArray
  /\ ret' = r.ret
  /\ IF Overrun(r.returnArray, returnArrayMaxSize)
       THEN \E o \in Outcomes : crashed' = (o = "abort")
       ELSE UNCHANGED crashed
  /\ Record(Call(op, -1, testCenter, testExtents, returnArrayMaxSize))
  /\ elementVector' = IF r.ret > 0 THEN PopBack(elementVector) ELSE elementVector
  /\ UNCHANGED idToIndex

QueryReturn(op, testCenter, testExtents, returnArrayMaxSize, r) ==
  /\ returnArray' = r.returnArray
  /\ ret' = r.ret
  /\ IF Overrun(r.returnArray, returnArrayMaxSize)
       THEN \E o \in Outcomes : crashed' = (o = "abort")
       ELSE UNCHANGED crashed
  /\ Record(Call(op, -1, testCenter, testExtents, returnArrayMaxSize))
  /\ UNCHANGED <<elementVector, idToIndex>>

(***************************************************************************)
(* SpatialPartitioner::ContainedBy                                         *)
(***************************************************************************)
ContainedBy(testCenter, testExtents, returnArrayMaxSize) ==
  LET id == -1
      testAABB == AABB(id, testCenter, testExtents)
  IN  /\ ~crashed
      /\ QueryReturn("ContainedBy", testCenter, testExtents, returnArrayMaxSize,
                     ContainedByLoop(elementVector, testAABB, returnArrayMaxSize, 1, EmptyMap, 0))

(***************************************************************************)
(* SpatialPartitioner::IntersectedBy                                       *)
(***************************************************************************)
IntersectedBy(testCenter, testExtents, returnArrayMaxSize) ==
  LET id == -1
      testAABB == AABB(id, testCenter, testExtents)
  IN  /\ ~crashed
      /\ QueryReturn("IntersectedBy", testCenter, testExtents, returnArrayMaxSize,
                     IntersectedByLoop(elementVector, testAABB, returnArrayMaxSize, 1, EmptyMap, 0))

(***************************************************************************)
(* SpatialPartitioner::IntersectedByOrig                                   *)
(***************************************************************************)
IntersectedByOrig(testCenter, testExtents, returnArrayMaxSize) ==
  LET id == -1
      testAABB == AABB(id, testCenter, testExtents)
  IN  /\ ~crashed
      /\ QueryReturn("IntersectedByOrig", testCenter, testExtents, returnArrayMaxSize,
                     IntersectedByOrigLoop(elementVector, testAABB, returnArrayMaxSize, 1, EmptyMap, 0))

(***************************************************************************)
(* SpatialPartitioner::HasItem                                             *)
(***************************************************************************)
HasItemResult(map, itemHandle) == itemHandle \in DOMAIN map

HasItem(itemHandle) ==
  /\ ~crashed
  /\ ret' = HasItemResult(idToIndex, itemHandle)
  /\ returnArray' = EmptyMap
  /\ Record(Call("HasItem", itemHandle, NoVector, NoVector, 0))
  /\ UNCHANGED <<elementVector, idToIndex, crashed>>

(***************************************************************************)
(* Spec: the store driven by a caller that meets the preconditions of the  *)
(* mutating calls (AddItem with an id the store does not hold, UpdateItem  *)
(* and RemoveItem with an id it holds), and asking HasItem.                *)
(***************************************************************************)
Next ==
  \/ \E id \in Ids, s \in MutationShapes :
       ~HasItemResult(idToIndex, id) /\ AddItem(id, s[1], s[2]) /\ UNCHANGED <<regVars, fbxVars>>
  \/ \E id \in Ids, s \in MutationShapes :
       HasItemResult(idToIndex, id) /\ UpdateItem(id, s[1], s[2]) /\ UNCHANGED <<regVars, fbxVars>>
  \/ \E id \in Ids :
       HasItemResult(idToIndex, id) /\ RemoveItem(id) /\ UNCHANGED <<regVars, fbxVars>>
  \/ \E id \in AskedIds : HasItem(id) /\ UNCHANGED <<regVars, fbxVars>>

Spec == Init /\ [][Next]_vars

(***************************************************************************)
(* SpecPlain: the caller of Spec passing only ids whose bit patterns the   *)
(* packed lane gives back unchanged.                                       *)
(***************************************************************************)
PlainIds == {1, 2, 3, 4}
PlainNext ==
  \/ \E id \in PlainIds, s \in MutationShapes :
       ~HasItemResult(idToIndex, id) /\ AddItem(id, s[1], s[2]) /\ UNCHANGED <<regVars, fbxVars>>
  \/ \E id \in PlainIds, s \in MutationShapes :
       HasItemResult(idToIndex, id) /\ UpdateItem(id, s[1], s[2]) /\ UNCHANGED <<regVars, fbxVars>>
  \/ \E id \in PlainIds :
       HasItemResult(idToIndex, id) /\ RemoveItem(id) /\ UNCHANGED <<regVars, fbxVars>>
  \/ \E id \in PlainIds \cup {0} : HasItem(id) /\ UNCHANGED <<regVars, fbxVars>>

SpecPlain == Init /\ [][PlainNext]_vars

(***************************************************************************)
(* SpecAny: the same calls with no precondition met or checked, as the     *)
(* exported entry points allow (any id to any call).                       *)
(***************************************************************************)
AnyNext ==
  \/ \E id \in AnyIds, s \in MutationShapes : AddItem(id, s[1], s[2]) /\ UNCHANGED <<regVars, fbxVars>>
  \/ \E id \in AnyIds, s \in MutationShapes : UpdateItem(id, s[1], s[2]) /\ UNCHANGED <<regVars, fbxVars>>
  \/ \E id \in AnyIds : RemoveItem(id) /\ UNCHANGED <<regVars, fbxVars>>
  \/ \E id \in AnyIds : HasItem(id) /\ UNCHANGED <<regVars, fbxVars>>

SpecAny == Init /\ [][AnyNext]_vars

(***************************************************************************)
(* SpecQuery: a store filled and thinned by calls that meet their          *)
(* preconditions, and queried with every query box and capacity.           *)
(***************************************************************************)
QueryNext ==
  \/ \E id \in QueryIds, s \in StoredShapes :
       ~HasItemResult(idToIndex, id) /\ AddItem(id, s[1], s[2]) /\ UNCHANGED <<regVars, fbxVars>>
  \/ \E id \in QueryIds :
       HasItemResult(idToIndex, id) /\ RemoveItem(id) /\ UNCHANGED <<regVars, fbxVars>>
  \/ \E q \in QueryShapes, cap \in Capacities : ContainedBy(q[1], q[2], cap) /\ UNCHANGED <<regVars, fbxVars>>
  \/ \E q \in QueryShapes, cap \in Capacities : IntersectedBy(q[1], q[2], cap) /\ UNCHANGED <<regVars, fbxVars>>
  \/ \E q \in QueryShapes, cap \in Capacities : IntersectedByOrig(q[1], q[2], cap) /\ UNCHANGED <<regVars, fbxVars>>

SpecQuery == Init /\ [][QueryNext]_vars

(***************************************************************************)
(* The registry of stores behind the exported entry points: the static     *)
(* SpatialPartitionerMap from handle to store and the static counter       *)
(* nextSpatialPartitionerId.  SpatialPartitionerMap[handle] is operator[]: *)
(* it inserts a default-constructed store for a handle the map lacks.      *)
(***************************************************************************)
MaxHandles == 3
\* The handles store calls are addressed to, and the id they pass.
OpHandles == {0, 1}
RegIds == {1}
RegShape == <<<<0, 0, 0>>, <<2, 2, 2>>>>

\* A store that comes into being holding an item already.
SpatialPartitionerNotEmpty ==
  [vec |-> <<AABB(1, RegShape[1], RegShape[2])>>, map |-> MapSet(EmptyMap, 1, 0)]
SpatialPartitioner == [vec |-> <<>>, map |-> EmptyMap]
StoreOf(eff) == [vec |-> eff.vec, map |-> eff.map]
RegSubscript(reg, handle) ==
  IF handle \in DOMAIN reg THEN reg ELSE MapSet(reg, handle, SpatialPartitioner)
\* int id = nextSpatialPartitionerId++ with the increment left out.
PostIncrementForgotten(n) == n
PostIncrement(n) == n + 1

\* History of the registry: the last exported call and the map before it.
RegRecord(op, handle, id, cap) ==
  /\ regCall' = [op |-> op, handle |-> handle, id |-> id, cap |-> cap]
  /\ regPre' = SpatialPartitionerMap

\* One store shared by all handles: the effect lands under every handle.
RegMutateShared(handle, eff) ==
  /\ SpatialPartitionerMap' =
       [h \in (DOMAIN SpatialPartitionerMap) \cup {handle} |-> StoreOf(eff)]
  /\ IF eff.oob
       THEN \E o \in Outcomes : crashed' = (o = "abort")
       ELSE UNCHANGED crashed
  /\ NoResult
  /\ UNCHANGED <<storeVars, nextSpatialPartitionerId, handles>>

\* A member call that changes the store found under the handle.
RegMutate(handle, eff) ==
  /\ SpatialPartitionerMap' = MapSet(SpatialPartitionerMap, handle, StoreOf(eff))
  /\ IF eff.oob
       THEN \E o \in Outcomes : crashed' = (o = "abort")
       ELSE UNCHANGED crashed
  /\ NoResult
  /\ UNCHANGED <<storeVars, nextSpatialPartitionerId, handles>>

AllocSpatialPartitioner ==
  LET id == nextSpatialPartitionerId
  IN  /\ ~crashed
      /\ nextSpatialPartitionerId < MaxHandles
      /\ nextSpatialPartitionerId' = PostIncrement(nextSpatialPartitionerId)
      /\ SpatialPartitionerMap' = MapSet(SpatialPartitionerMap, id, SpatialPartitioner)
      /\ handles' = Append(handles, id)
      /\ ret' = id
      /\ returnArray' = EmptyMap
      /\ RegRecord("AllocSpatialPartitioner", id, 0, 0)
      /\ UNCHANGED <<storeVars, crashed>>

SpatialPartitionerAddItem(SpatialPartitionerHandle, itemId, itemBoundsCenter, itemBoundsSize) ==
  LET reg == RegSubscript(SpatialPartitionerMap, SpatialPartitionerHandle)
  IN  /\ ~crashed
      /\ Size(reg[SpatialPartitionerHandle].vec) < MaxLen
      /\ RegMutate(SpatialPartitionerHandle,
                   AddItemEffect(reg[SpatialPartitionerHandle], itemId,
                                 itemBoundsCenter, itemBoundsSize))
      /\ RegRecord("SpatialPartitionerAddItem", SpatialPartitionerHandle, itemId, 0)

SpatialPartitionerUpdateItem(SpatialPartitionerHandle, itemId, itemBoundsCenter, itemBoundsSize) ==
  LET reg == RegSubscript(SpatialPartitionerMap, SpatialPartitionerHandle)
  IN  /\ ~crashed
      /\ RegMutate(SpatialPartitionerHandle,
                   UpdateItemEffect(reg[SpatialPartitionerHandle], itemId,
                                    itemBoundsCenter, itemBoundsSize))
      /\ RegRecord("SpatialPartitionerUpdateItem", SpatialPartitionerHandle, itemId, 0)

SpatialPartitionerRemoveItem(SpatialPartitionerHandle, itemId) ==
  LET reg == RegSubscript(SpatialPartitionerMap, SpatialPartitionerHandle)
  IN  /\ ~crashed
      /\ RegMutate(SpatialPartitionerHandle,
                   RemoveItemEffect(reg[SpatialPartitionerHandle], itemId))
      /\ RegRecord("SpatialPartitionerRemoveItem", SpatialPartitionerHandle, itemId, 0)

\* A query through the registry: the answer of the store under the handle.
RegQuery(op, handle, r, returnArrayMaxSize) ==
  /\ ~crashed
  /\ SpatialPartitionerMap' = RegSubscript(SpatialPartitionerMap, handle)
  /\ returnArray' = r.returnArray
  /\ ret' = r.ret
  /\ IF Overrun(r.returnArray, returnArrayMaxSize)
       THEN \E o \in Outcomes : crashed' = (o = "abort")
       ELSE UNCHANGED crashed
  /\ RegRecord(op, handle, -1, returnArrayMaxSize)
  /\ UNCHANGED <<storeVars, nextSpatialPartitionerId, handles>>

SpatialPartitionerContainedBy(SpatialPartitionerHandle, testCenter, testExtents, returnArrayMaxSize) ==
  LET reg == RegSubscript(SpatialPartitionerMap, SpatialPartitionerHandle)
  IN  RegQuery("SpatialPartitionerContainedBy", SpatialPartitionerHandle,
               ContainedByLoop(reg[SpatialPartitionerHandle].vec,
                               AABB(-1, testCenter, testExtents),
                               returnArrayMaxSize, 1, EmptyMap, 0),
               returnArrayMaxSize)

SpatialPartitionerIntersectedBy(SpatialPartitionerHandle, testCenter, testExtents, returnArrayMaxSize) ==
  LET reg == RegSubscript(SpatialPartitionerMap, SpatialPartitionerHandle)
  IN  RegQuery("SpatialPartitionerIntersectedBy", SpatialPartitionerHandle,
               IntersectedByLoop(reg[SpatialPartitionerHandle].vec,
                                 AABB(-1, testCenter, testExtents),
                                 returnArrayMaxSize, 1, EmptyMap, 0),
               returnArrayMaxSize)

\* The exported HasItem returns void: the member's answer is dropped.
SpatialPartitionerHasItem(SpatialPartitionerHandle, itemHandle) ==
  /\ ~crashed
  /\ SpatialPartitionerMap' = RegSubscript(SpatialPartitionerMap, SpatialPartitionerHandle)
  /\ NoResult
  /\ RegRecord("SpatialPartitionerHasItem", SpatialPartitionerHandle, itemHandle, 0)
  /\ UNCHANGED <<storeVars, nextSpatialPartitionerId, handles, crashed>>

(***************************************************************************)
(* SpecRegistry: a caller allocating stores and addressing store calls to  *)
(* any handle, returned yet or not, with no precondition checked.          *)
(***************************************************************************)
RegistryNext ==
  \/ AllocSpatialPartitioner /\ UNCHANGED fbxVars
  \/ \E h \in OpHandles, id \in RegIds :
       SpatialPartitionerAddItem(h, id, RegShape[1], RegShape[2]) /\ UNCHANGED fbxVars
  \/ \E h \in OpHandles, id \in RegIds :
       SpatialPartitionerUpdateItem(h, id, RegShape[1], RegShape[2]) /\ UNCHANGED fbxVars
  \/ \E h \in OpHandles, id \in RegIds : SpatialPartitionerRemoveItem(h, id) /\ UNCHANGED fbxVars
  \/ \E h \in OpHandles, cap \in Capacities :
       SpatialPartitionerContainedBy(h, RegShape[1], RegShape[2], cap) /\ UNCHANGED fbxVars
  \/ \E h \in OpHandles, cap \in Capacities :
       SpatialPartitionerIntersectedBy(h, RegShape[1], RegShape[2], cap) /\ UNCHANGED fbxVars
  \/ \E h \in OpHandles, id \in RegIds : SpatialPartitionerHasItem(h, id) /\ UNCHANGED fbxVars

SpecRegistry == Init /\ [][RegistryNext]_vars

(***************************************************************************)
(* The FBX exporter: StartExport, StartMesh and FinishExport with the      *)
(* globals they share.  A manager is named by its number in creation       *)
(* order (0 is no manager); fbxScene is the number of the manager that     *)
(* owns the scene, 0 for NULL.  A node is named by the manager it was      *)
(* created with, its kind and its key; rootChildren are the nodes under    *)
(* the root of the current scene.  exporting is the caller's position:     *)
(* between a StartExport and the FinishExport that follows it.             *)
(***************************************************************************)
MaxExports == 3
MESH_GROUP_NONE == 0
GroupKeys == {MESH_GROUP_NONE, 1, 2}
MeshIds == {1, 2}
Node(owner, kind, key) == [owner |-> owner, kind |-> kind, key |-> key]
NoNode == Node(0, "none", 0)
FbxRecord(op, groupKey, ok, parent) ==
  fbxCall' = [op |-> op, groupKey |-> groupKey, ok |-> ok, parent |-> parent]
\* Every later call on a scene that could not be created uses the NULL
\* scene or the destroyed manager: undefined behaviour.
UseOfNullScene ==
  IF fbxScene = 0
    THEN \E o \in Outcomes : crashed' = (o = "abort")
    ELSE UNCHANGED crashed

StartExport ==
  /\ ~crashed
  /\ ~exporting
  /\ manager < MaxExports
  /\ manager' = manager + 1
  /\ \E created \in BOOLEAN : fbxScene' = IF created THEN manager + 1 ELSE 0
  /\ rootChildren' = {}
  /\ exporting' = TRUE
  /\ FbxRecord("StartExport", MESH_GROUP_NONE, fbxScene' # 0, NoNode)
  /\ UNCHANGED <<groupMap, crashed>>

StartMesh(meshId, groupKey) ==
  LET meshNode == Node(manager, "mesh", meshId)
      found == groupKey \in DOMAIN groupMap
      groupMap1 == IF found THEN groupMap
                   ELSE MapSet(groupMap, groupKey, Node(manager, "group", groupKey))
  IN  /\ ~crashed
      /\ exporting
      /\ UseOfNullScene
      /\ IF fbxScene = 0
           THEN /\ FbxRecord("StartMesh", groupKey, FALSE, NoNode)
                /\ UNCHANGED <<groupMap, rootChildren>>
           ELSE IF groupKey = MESH_GROUP_NONE
                  THEN /\ rootChildren' = rootChildren \cup {meshNode}
                       /\ FbxRecord("StartMesh", groupKey, TRUE, Node(fbxScene, "root", 0))
                       /\ UNCHANGED groupMap
                  ELSE /\ groupMap' = groupMap1
                       /\ rootChildren' = IF found THEN rootChildren
                                          ELSE rootChildren \cup {groupMap1[groupKey]}
                       /\ FbxRecord("StartMesh", groupKey, TRUE, groupMap1[groupKey])
      /\ UNCHANGED <<manager, fbxScene, exporting>>

\* The map FinishExport leaves: cleared only past the early return.
FinishedGroupMap(fbxExportStatus) == IF fbxExportStatus THEN EmptyMap ELSE groupMap

FinishExport ==
  /\ ~crashed
  /\ exporting
  /\ UseOfNullScene
  /\ \E fbxExportStatus \in BOOLEAN :
       /\ groupMap' = FinishedGroupMap(fbxExportStatus)
       /\ FbxRecord("FinishExport", MESH_GROUP_NONE, fbxExportStatus, NoNode)
  /\ exporting' = FALSE
  /\ UNCHANGED <<manager, fbxScene, rootChildren>>

(***************************************************************************)
(* SpecExport: a caller running exports one after the other, each a        *)
(* StartExport, any StartMesh calls and a FinishExport.                    *)
(***************************************************************************)
ExportNext ==
  \/ StartExport /\ UNCHANGED <<storeVars, returnArray, ret, regVars>>
  \/ \E meshId \in MeshIds, groupKey \in GroupKeys :
       StartMesh(meshId, groupKey) /\ UNCHANGED <<storeVars, returnArray, ret, regVars>>
  \/ FinishExport /\ UNCHANGED <<storeVars, returnArray, ret, regVars>>

SpecExport == Init /\ [][ExportNext]_vars

(***************************************************************************)
(* Vocabulary of the properties.                                           *)
(***************************************************************************)
Min(a, b) == IF a <= b THEN a ELSE b
QueryOps == {"ContainedBy", "IntersectedBy", "IntersectedByOrig"}
TestBox == AABB(-1, call.center, call.extents)
Slots(vec) == 0..(Size(vec) - 1)
EmbeddedId(vec, i) == IdFromAABB(Slot(vec, i))
Bounds(box) == <<SubSeq(box.vecmin, 1, 3), SubSeq(box.vecmax, 1, 3)>>
\* The store answers for `id` with a slot that exists and carries that id.
Holds(vec, map, id) ==
  /\ id \in DOMAIN map
  /\ map[id] \in Slots(vec)
  /\ EmbeddedId(vec, map[id]) = id
SeparatedOnAxis(a, b, i) == a.vecmax[i] < b.vecmin[i] \/ a.vecmin[i] > b.vecmax[i]
NotSeparated(a, b) == \A i \in 1..3 : ~SeparatedOnAxis(a, b, i)
Inside(a, b) == \A i \in 1..3 : a.vecmin[i] <= b.vecmin[i] /\ a.vecmax[i] >= b.vecmax[i]
Hit(kind, a, b) == IF kind = "ContainedBy" THEN Inside(a, b) ELSE NotSeparated(a, b)
RECURSIVE Matches(_, _, _, _)
\* The ids of the boxes of vec that the query box hits, in slot order.
Matches(kind, vec, test, i) ==
  IF i > Len(vec)
    THEN <<>>
    ELSE (IF Hit(kind, test, vec[i]) THEN <<IdFromAABB(vec[i])>> ELSE <<>>)
         \o Matches(kind, vec, test, i + 1)
FirstN(seq, n) == SubSeq(seq, 1, Min(n, Len(seq)))
\* What returnArray holds, cell 0 first, when cells 0 .. n-1 are the written ones.
WrittenCells == Cardinality(DOMAIN returnArray)
Written == [k \in 1..WrittenCells |-> returnArray[k - 1]]
Answered == call.op \in QueryOps /\ ~crashed

(***************************************************************************)
(* C1.  In every state reached from the empty store by AddItem, UpdateItem *)
(* and RemoveItem calls that meet their preconditions, the mapping is      *)
(* exactly the inverse of the slots' embedded ids: the mapping sends id to *)
(* slot i if and only if slot i exists and carries embedded id id.         *)
(***************************************************************************)
C1_MappingIsInverseOfSlots ==
  ~crashed =>
    /\ \A id \in DOMAIN idToIndex : Holds(elementVector, idToIndex, id)
    /\ \A i \in Slots(elementVector) :
         /\ EmbeddedId(elementVector, i) \in DOMAIN idToIndex
         /\ idToIndex[EmbeddedId(elementVector, i)] = i

(***************************************************************************)
(* C2.  RemoveItem(id) on a store of at least two entities that holds id   *)
(* removes exactly that entity: afterwards HasItem(id) is false, the       *)
(* length is one less, every other id is still held with the bounds it had *)
(* before, and every IntersectedBy / ContainedBy query reports the same    *)
(* surviving ids as before the removal (order aside).                      *)
(***************************************************************************)
Reported(kind, vec, q) ==
  LET test == AABB(-1, q[1], q[2])
      r == IF kind = "ContainedBy"
             THEN ContainedByLoop(vec, test, Size(vec) + 1, 1, EmptyMap, 0)
             ELSE IntersectedByLoop(vec, test, Size(vec) + 1, 1, EmptyMap, 0)
  IN  { r.returnArray[k] : k \in DOMAIN r.returnArray }
RemovedFromTwoOrMore ==
  /\ call.op = "RemoveItem"
  /\ ~crashed
  /\ Size(pre.vec) >= 2
  /\ HasItemResult(pre.map, call.id)

C2_RemoveItemRemovesExactlyThatEntity ==
  RemovedFromTwoOrMore =>
    /\ ~HasItemResult(idToIndex, call.id)
    /\ Size(elementVector) = Size(pre.vec) - 1
    /\ \A id \in (DOMAIN pre.map) \ {call.id} :
         /\ Holds(pre.vec, pre.map, id)
         /\ Holds(elementVector, idToIndex, id)
         /\ Bounds(Slot(elementVector, idToIndex[id])) = Bounds(Slot(pre.vec, pre.map[id]))
    /\ \A q \in QueryShapes, kind \in {"IntersectedBy", "ContainedBy"} :
         Reported(kind, elementVector, q) = Reported(kind, pre.vec, q) \ {call.id}

(***************************************************************************)
(* C3.  IntersectedBy called with capacity 0 returns 0, whatever the store *)
(* holds and whatever the query box is.                                    *)
(***************************************************************************)
C3_ZeroCapacityReturnsZero ==
  (call.op = "IntersectedBy" /\ call.cap = 0 /\ ~crashed) => ret = 0

(***************************************************************************)
(* C4.  For every capacity (0 included) IntersectedBy and ContainedBy      *)
(* write only to the cells 0 .. capacity-1 of the output buffer, and the   *)
(* number of cells written is the returned count, which lies in            *)
(* 0 .. capacity.                                                          *)
(***************************************************************************)
C4_WritesStayInsideTheBuffer ==
  call.op \in {"IntersectedBy", "ContainedBy"} =>
    /\ DOMAIN returnArray \subseteq 0..(call.cap - 1)
    /\ WrittenCells = ret
    /\ ret \in 0..call.cap

(***************************************************************************)
(* C5.  For every capacity N >= 1, IntersectedBy returns min(N, M) with M  *)
(* the number of stored boxes that intersect the query box, and            *)
(* ContainedBy returns min(N, M) with M the number of stored boxes that    *)
(* lie inside the query box.                                               *)
(***************************************************************************)
C5_ReturnsMinOfCapacityAndMatches ==
  (Answered /\ call.op \in {"IntersectedBy", "ContainedBy"} /\ call.cap >= 1) =>
    ret = Min(call.cap, Len(Matches(call.op, elementVector, TestBox, 1)))

\* An IntersectedBy call that had to truncate: more boxes intersect the query
\* box than the capacity (>= 1) allows.
C5_TruncatedQuery ==
  /\ Answered
  /\ call.op = "IntersectedBy"
  /\ call.cap >= 1
  /\ Len(Matches("IntersectedBy", elementVector, TestBox, 1)) > call.cap
  /\ ret = call.cap

(***************************************************************************)
(* C6.  The ids IntersectedBy writes are, in slot order, the ids of the    *)
(* stored boxes that are not separated from the query box on any of the    *)
(* three axes (a box that only touches the query box is included),         *)
(* truncated to the first `capacity` of them.                              *)
(***************************************************************************)
C6_IntersectedByWritesTheIntersectingIds ==
  (Answered /\ call.op = "IntersectedBy") =>
    /\ DOMAIN returnArray = 0..(WrittenCells - 1)
    /\ Written = FirstN(Matches("IntersectedBy", elementVector, TestBox, 1), call.cap)

\* The same statement for the capacities from 1 on.
C6_FromCapacityOne ==
  (Answered /\ call.op = "IntersectedBy" /\ call.cap >= 1) =>
    /\ DOMAIN returnArray = 0..(WrittenCells - 1)
    /\ Written = FirstN(Matches("IntersectedBy", elementVector, TestBox, 1), call.cap)

(***************************************************************************)
(* C7.  The ids ContainedBy writes are, in slot order, the ids of exactly  *)
(* the stored boxes B that lie inside the query box A (A.min <= B.min and  *)
(* A.max >= B.max on the three axes), truncated to the first `capacity`    *)
(* of them.                                                                *)
(***************************************************************************)
C7_ContainedByWritesTheContainedIds ==
  (Answered /\ call.op = "ContainedBy") =>
    /\ DOMAIN returnArray = 0..(WrittenCells - 1)
    /\ Written = FirstN(Matches("ContainedBy", elementVector, TestBox, 1), call.cap)

\* The same statement for the capacities from 1 on.
C7_FromCapacityOne ==
  (Answered /\ call.op = "ContainedBy" /\ call.cap >= 1) =>
    /\ DOMAIN returnArray = 0..(WrittenCells - 1)
    /\ Written = FirstN(Matches("ContainedBy", elementVector, TestBox, 1), call.cap)

(***************************************************************************)
(* C8.  The vectorized and the scalar intersection paths agree: for every  *)
(* store content, query box and capacity, IntersectedBy and                *)
(* IntersectedByOrig return the same count and the same ids in the same    *)
(* cells of the buffer.                                                    *)
(***************************************************************************)
C8_VectorizedAgreesWithScalar ==
  /\ call.op = "IntersectedBy" =>
       Returned(returnArray, ret) =
         IntersectedByOrigLoop(elementVector, TestBox, call.cap, 1, EmptyMap, 0)
  /\ call.op = "IntersectedByOrig" =>
       Returned(returnArray, ret) =
         IntersectedByLoop(elementVector, TestBox, call.cap, 1, EmptyMap, 0)

TouchesOnAFace(a, b) ==
  /\ NotSeparated(a, b)
  /\ \E i \in 1..3 : a.vecmax[i] = b.vecmin[i] \/ a.vecmin[i] = b.vecmax[i]
FullySeparated(a, b) == \A i \in 1..3 : SeparatedOnAxis(a, b, i)
SeparatedOnOneAxisOnly(a, b) ==
  Cardinality({i \in 1..3 : SeparatedOnAxis(a, b, i)}) = 1
\* A vectorized query over a store that holds a box touching the query box on
\* a face (reported) and a box apart from it on a single axis (not reported).
C8_TouchingAndSeparatedBoxes ==
  /\ Answered
  /\ call.op = "IntersectedBy"
  /\ call.cap >= 2
  /\ \E i, j \in 1..Len(elementVector) :
       /\ TouchesOnAFace(TestBox, elementVector[i])
       /\ IdFromAABB(elementVector[i]) \in { returnArray[k] : k \in DOMAIN returnArray }
       /\ SeparatedOnOneAxisOnly(TestBox, elementVector[j])
       /\ IdFromAABB(elementVector[j]) \notin { returnArray[k] : k \in DOMAIN returnArray }

(***************************************************************************)
(* C9.  contains(A, B) implies intersects(A, B) for all boxes A and B the  *)
(* AABB constructor builds from an id, a center and per-axis extents.      *)
(***************************************************************************)
BoxesInPlay ==
  { elementVector[i] : i \in 1..Len(elementVector) }
    \cup { AABB(-1, q[1], q[2]) : q \in QueryShapes }

C9_ContainsImpliesIntersects ==
  \A a \in BoxesInPlay, b \in BoxesInPlay : contains(a, b) => intersects(a, b)

\* The same statement for the contained boxes B whose extents are not negative.
C9_ForOrderedBoxes ==
  \A a \in BoxesInPlay, b \in BoxesInPlay :
    (\A i \in 1..3 : b.vecmin[i] <= b.vecmax[i]) => (contains(a, b) => intersects(a, b))

(***************************************************************************)
(* C10.  AddItem(id, center, extents) directly followed by RemoveItem(id)  *)
(* leaves HasItem(id) false and the dense sequence as long as it was       *)
(* before the AddItem, from any store state and for any id.                *)
(***************************************************************************)
C10_AddThenRemoveRestoresLength ==
  (call.op = "RemoveItem" /\ undo.follows /\ ~crashed) =>
    /\ ~HasItemResult(idToIndex, call.id)
    /\ Size(elementVector) = undo.len

\* RemoveItem(id) right after AddItem(id) on a store that already held two
\* or more entities.
C10_AddThenRemoveOnMany ==
  /\ call.op = "RemoveItem"
  /\ undo.follows
  /\ ~crashed
  /\ undo.len >= 2

(***************************************************************************)
(* C11.  In every state reached by calls that meet their preconditions,    *)
(* every slot index held in the mapping lies in [0, length) of the dense   *)
(* sequence, and the mapping has exactly as many entries as the sequence   *)
(* has slots, that number being the count of ids added and not removed.    *)
(***************************************************************************)
C11_IndicesInRangeAndCountsAgree ==
  ~crashed =>
    /\ \A id \in DOMAIN idToIndex : idToIndex[id] \in Slots(elementVector)
    /\ Cardinality(DOMAIN idToIndex) = Size(elementVector)
    /\ Size(elementVector) = Cardinality(live)

(***************************************************************************)
(* C12.  AddItem(id, center, extents) with an id not in the store makes    *)
(* the sequence one longer, puts the box with min = center - extents,      *)
(* max = center + extents and embedded id id in the last slot, maps id to  *)
(* that index, and leaves every other slot and mapping entry unchanged.    *)
(***************************************************************************)
CornerMin(center, extents) == [i \in 1..3 |-> center[i] - extents[i]]
CornerMax(center, extents) == [i \in 1..3 |-> center[i] + extents[i]]
OtherSlotsKept(i) ==
  \A j \in Slots(pre.vec) \ {i} :
    j \in Slots(elementVector) /\ Slot(elementVector, j) = Slot(pre.vec, j)
OtherEntriesKept(id) ==
  /\ (DOMAIN idToIndex) \ {id} = (DOMAIN pre.map) \ {id}
  /\ \A k \in (DOMAIN pre.map) \ {id} : idToIndex[k] = pre.map[k]
C12_AddItemAppendsTheBox ==
  (call.op = "AddItem" /\ call.id \notin DOMAIN pre.map /\ ~crashed) =>
    LET last == Size(pre.vec)
    IN  /\ Size(elementVector) = Size(pre.vec) + 1
        /\ Bounds(Slot(elementVector, last)) =
             <<CornerMin(call.center, call.extents), CornerMax(call.center, call.extents)>>
        /\ EmbeddedId(elementVector, last) = call.id
        /\ call.id \in DOMAIN idToIndex /\ idToIndex[call.id] = last
        /\ OtherSlotsKept(last)
        /\ OtherEntriesKept(call.id)

(***************************************************************************)
(* C13.  UpdateItem(id, center, extents) with an id in the store replaces  *)
(* only the bounds held in id's slot (min = center - extents, max = center *)
(* + extents, whatever the old box was) and leaves the embedded id of that *)
(* slot, the slot index of id, the length, the whole mapping and every     *)
(* other slot unchanged.                                                   *)
(***************************************************************************)
C13_UpdateItemReplacesOnlyTheBounds ==
  (call.op = "UpdateItem" /\ call.id \in DOMAIN pre.map /\ ~crashed) =>
    LET i == pre.map[call.id]
    IN  /\ idToIndex = pre.map
        /\ Size(elementVector) = Size(pre.vec)
        /\ i \in Slots(elementVector)
        /\ Bounds(Slot(elementVector, i)) =
             <<CornerMin(call.center, call.extents), CornerMax(call.center, call.extents)>>
        /\ EmbeddedId(elementVector, i) = EmbeddedId(pre.vec, i)
        /\ OtherSlotsKept(i)

(***************************************************************************)
(* C14.  UpdateItem(id, center, extents) with the center and extents the   *)
(* entity already has leaves the store unchanged, so that IntersectedBy    *)
(* and ContainedBy return the same count and the same ids in the same      *)
(* order as before the update, for every query box and capacity.           *)
(***************************************************************************)
Answer(kind, vec, q, cap) ==
  LET test == AABB(-1, q[1], q[2])
  IN  IF kind = "ContainedBy"
        THEN ContainedByLoop(vec, test, cap, 1, EmptyMap, 0)
        ELSE IntersectedByLoop(vec, test, cap, 1, EmptyMap, 0)
UpdateWithSameBounds ==
  /\ call.op = "UpdateItem"
  /\ ~crashed
  /\ call.id \in DOMAIN pre.map
  /\ pre.map[call.id] \in Slots(pre.vec)
  /\ Bounds(Slot(pre.vec, pre.map[call.id])) =
       <<CornerMin(call.center, call.extents), CornerMax(call.center, call.extents)>>
C14_UpdateItemWithSameBoundsChangesNothing ==
  UpdateWithSameBounds =>
    /\ elementVector = pre.vec
    /\ idToIndex = pre.map
    /\ \A kind \in {"ContainedBy", "IntersectedBy"}, q \in QueryShapes, cap \in Capacities :
         Answer(kind, elementVector, q, cap) = Answer(kind, pre.vec, q, cap)

(***************************************************************************)
(* C15.  HasItem(id) changes neither the dense sequence nor the mapping,   *)
(* and over calls that meet their preconditions it returns true exactly    *)
(* when id has been added by AddItem and not removed by RemoveItem since.  *)
(***************************************************************************)
C15_HasItemTellsTheLiveIds ==
  (call.op = "HasItem" /\ ~crashed) =>
    /\ elementVector = pre.vec
    /\ idToIndex = pre.map
    /\ (ret = TRUE) <=> (call.id \in live)

StoreUnchanged == elementVector = pre.vec /\ idToIndex = pre.map

(***************************************************************************)
(* C16.  AddItem with an id that is already in the store is rejected: the  *)
(* dense sequence and the mapping are left exactly as they were.           *)
(***************************************************************************)
C16_AddItemOfAHeldIdIsRejected ==
  (call.op = "AddItem" /\ HasItemResult(pre.map, call.id) /\ ~crashed) => StoreUnchanged

(***************************************************************************)
(* C17.  UpdateItem with an id that is not in the store leaves the store   *)
(* unchanged: no mapping entry is created for the id and no slot is        *)
(* overwritten.                                                            *)
(***************************************************************************)
C17_UpdateItemOfAnUnknownIdChangesNothing ==
  (call.op = "UpdateItem" /\ ~HasItemResult(pre.map, call.id)) =>
    ~crashed /\ StoreUnchanged

(***************************************************************************)
(* C18.  RemoveItem with an id that is not in the store leaves the store   *)
(* unchanged, whatever its size: no entity is removed, moved or            *)
(* overwritten and no mapping entry is added or dropped.                   *)
(***************************************************************************)
C18_RemoveItemOfAnUnknownIdChangesNothing ==
  (call.op = "RemoveItem" /\ ~HasItemResult(pre.map, call.id)) =>
    ~crashed /\ StoreUnchanged

(***************************************************************************)
(* C19.  AddItem and UpdateItem reject extents that are negative on an     *)
(* axis, so that in every reachable state every stored box has             *)
(* min[axis] <= max[axis] on all three axes.                               *)
(***************************************************************************)
C19_StoredBoxesAreOrdered ==
  \A i \in Slots(elementVector) :
    \A axis \in 1..3 :
      Slot(elementVector, i).vecmin[axis] <= Slot(elementVector, i).vecmax[axis]

(***************************************************************************)
(* C20.  Every AllocSpatialPartitioner call returns a handle strictly      *)
(* greater than every handle returned by an earlier call, so no handle is  *)
(* returned twice, whatever store calls come between the allocations.      *)
(***************************************************************************)
C20_HandlesStrictlyIncrease ==
  \A i, j \in 1..Len(handles) : i < j => handles[i] < handles[j]
\* An allocation that follows earlier ones and an AddItem on the first store.
C20_AllocAfterStoreCalls ==
  /\ regCall.op = "AllocSpatialPartitioner"
  /\ Len(handles) >= 2
  /\ 0 \in DOMAIN SpatialPartitionerMap
  /\ Size(SpatialPartitionerMap[0].vec) > 0

(***************************************************************************)
(* Vocabulary of the registry properties.                                  *)
(***************************************************************************)
RegMutators ==
  {"SpatialPartitionerAddItem", "SpatialPartitionerUpdateItem", "SpatialPartitionerRemoveItem"}
RegQueries == {"SpatialPartitionerContainedBy", "SpatialPartitionerIntersectedBy"}
RegStoreOps == RegMutators \cup RegQueries \cup {"SpatialPartitionerHasItem"}
ReturnedHandles == {handles[k] : k \in 1..Len(handles)}
StoreUnder(reg, h) == IF h \in DOMAIN reg THEN reg[h] ELSE SpatialPartitioner

(***************************************************************************)
(* C21.  An AddItem, UpdateItem, RemoveItem, IntersectedBy, ContainedBy or *)
(* HasItem call addressed to handle h leaves the dense sequence and the    *)
(* mapping of the store of every other handle unchanged.                   *)
(***************************************************************************)
C21_OtherStoresUntouched ==
  regCall.op \in RegStoreOps =>
    \A h \in (DOMAIN regPre) \ {regCall.handle} :
      h \in DOMAIN SpatialPartitionerMap /\ SpatialPartitionerMap[h] = regPre[h]
\* A mutation that changed one store while another store held an entity.
C21_MutationBesideAFilledStore ==
  /\ regCall.op \in RegMutators
  /\ StoreUnder(SpatialPartitionerMap, regCall.handle) # StoreUnder(regPre, regCall.handle)
  /\ \E h \in (DOMAIN regPre) \ {regCall.handle} : Size(regPre[h].vec) > 0

(***************************************************************************)
(* C22.  A store call addressed to a handle that AllocSpatialPartitioner   *)
(* has never returned behaves as the same call on a fresh empty store: on  *)
(* a handle no call has addressed yet a query returns 0 matches and writes *)
(* nothing, RemoveItem and HasItem leave an empty store, UpdateItem leaves *)
(* the entry and the empty sequence it leaves on an empty store, and       *)
(* AddItem leaves a store of one slot holding the item; calls that follow  *)
(* on the same handle see the store the earlier ones left.                 *)
(***************************************************************************)
ToUnreturnedHandle ==
  regCall.op \in RegStoreOps /\ regCall.handle \notin ReturnedHandles
C22_UnreturnedHandleIsAFreshStore ==
  ToUnreturnedHandle =>
    LET h == regCall.handle
        before == StoreUnder(regPre, h)
        after == StoreUnder(SpatialPartitionerMap, h)
        fresh == h \notin DOMAIN regPre
    IN  /\ h \in DOMAIN SpatialPartitionerMap
        /\ fresh => before = [vec |-> <<>>, map |-> EmptyMap]
        /\ regCall.op \in RegQueries =>
             /\ after = before
             /\ ret = Answer(IF regCall.op = "SpatialPartitionerContainedBy"
                               THEN "ContainedBy" ELSE "IntersectedBy",
                             before.vec, RegShape, regCall.cap).ret
             /\ fresh => (ret = 0 /\ returnArray = EmptyMap /\ ~crashed)
        /\ regCall.op = "SpatialPartitionerHasItem" => after = before /\ ~crashed
        /\ regCall.op = "SpatialPartitionerAddItem" =>
             /\ ~crashed
             /\ Size(after.vec) = Size(before.vec) + 1
             /\ HasItemResult(after.map, regCall.id)
             /\ after.map[regCall.id] = Size(before.vec)
             /\ Bounds(Slot(after.vec, Size(before.vec))) =
                  <<CornerMin(RegShape[1], RegShape[2]), CornerMax(RegShape[1], RegShape[2])>>
        /\ (regCall.op = "SpatialPartitionerRemoveItem" /\ fresh) =>
             (after = before /\ ~crashed)
        /\ (regCall.op = "SpatialPartitionerUpdateItem" /\ fresh) =>
             (after.vec = <<>> /\ after.map = MapSet(EmptyMap, regCall.id, 0))
\* A query that finds the item an earlier AddItem put under an unreturned handle.
C22_ItemSeenUnderUnreturnedHandle ==
  /\ ToUnreturnedHandle
  /\ regCall.op \in RegQueries
  /\ ret > 0
  /\ Len(handles) > 0

(***************************************************************************)
(* C23.  RemoveItem(id) with id in slot i, i not the last slot, of a store *)
(* of two or more entities: afterwards slot i holds the box that was in    *)
(* the last slot, the mapping entry of that box's id (read from its packed *)
(* id lane) is i, the entry for id is gone, the sequence is one shorter,   *)
(* and every slot other than i keeps its content and its index.            *)
(***************************************************************************)
RemovedFromInnerSlot ==
  /\ call.op = "RemoveItem"
  /\ ~crashed
  /\ Size(pre.vec) >= 2
  /\ call.id \in DOMAIN pre.map
  /\ pre.map[call.id] \in Slots(pre.vec)
  /\ pre.map[call.id] # Size(pre.vec) - 1
C23_RemoveItemSwapsInTheLastBox ==
  RemovedFromInnerSlot =>
    LET i == pre.map[call.id]
        moved == Slot(pre.vec, Size(pre.vec) - 1)
    IN  /\ Size(elementVector) = Size(pre.vec) - 1
        /\ Slot(elementVector, i) = moved
        /\ IdFromAABB(moved) \in DOMAIN idToIndex
        /\ idToIndex[IdFromAABB(moved)] = i
        /\ call.id \notin DOMAIN idToIndex
        /\ \A j \in Slots(elementVector) \ {i} : Slot(elementVector, j) = Slot(pre.vec, j)
\* The case with a slot other than i and the last one, and a moved box whose
\* id the packed lane does not give back.
C23_InnerRemovalOfThree ==
  /\ RemovedFromInnerSlot
  /\ Size(pre.vec) = 3
  /\ IdFromAABB(Slot(pre.vec, 2)) = 0

(***************************************************************************)
(* C24.  For a store of zero or one entities and any id, the special case  *)
(* of RemoveItem (clear the sequence and the mapping) leaves the state the *)
(* general swap-with-last path would leave on the same store and id.       *)
(***************************************************************************)
C24_ClearEqualsTheGeneralPath ==
  (call.op = "RemoveItem" /\ Size(pre.vec) <= 1) =>
    LET general == RemoveItemGeneral(pre, call.id)
    IN  /\ ~general.oob
        /\ elementVector = general.vec
        /\ idToIndex = general.map

(***************************************************************************)
(* C25.  The id survives packing: for every id, center and extents given   *)
(* to AddItem, the id read back by IdFromAABB from the box the constructor *)
(* builds, and so the id held in the new slot, equals id bit for bit.      *)
(***************************************************************************)
C25_IdSurvivesPacking ==
  (call.op = "AddItem" /\ ~crashed) =>
    /\ IdFromAABB(AABB(call.id, call.center, call.extents)) = call.id
    /\ EmbeddedId(elementVector, Size(elementVector) - 1) = call.id

(***************************************************************************)
(* C26.  The packed id lane never influences a spatial test: for boxes     *)
(* that agree on the three spatial lanes of min and max and differ only in *)
(* their ids, intersects gives the same result, and so does contains; so   *)
(* what a query finds depends neither on the ids of the stored boxes nor   *)
(* on the id -1 of the query box.                                          *)
(***************************************************************************)
\* Ids whose lanes compare in every way: a NaN, a small positive value,
\* +infinity and the negative zero.
LaneIds == {-1, 1, ExpMask, MinInt32}
\* The box with the same spatial lanes, built for another id.
Relabelled(box, id) ==
  [vecmax |-> [box.vecmax EXCEPT ![4] = FloatAddZero(id)],
   vecmin |-> [box.vecmin EXCEPT ![4] = FloatSubZero(id)]]
\* The pairs tested are the query box of an IntersectedBy call and each
\* stored box, both relabelled with every pair of ids.
C26_IdLaneDoesNotDecide ==
  (Answered /\ call.op = "IntersectedBy") =>
    \A i \in Slots(elementVector), id0 \in LaneIds, id1 \in LaneIds :
      LET stored == Slot(elementVector, i)
          test0 == AABB(id0, call.center, call.extents)
          stored1 == Relabelled(stored, id1)
      IN  /\ intersects(test0, stored1) = intersects(TestBox, stored)
          /\ intersects(stored1, test0) = intersects(stored, TestBox)
          /\ contains(test0, stored1) = contains(TestBox, stored)
          /\ contains(stored1, test0) = contains(stored, TestBox)
\* A query over boxes of which it hits one and misses another.
C26_QueryWithHitAndMiss ==
  /\ Answered
  /\ call.op = "IntersectedBy"
  /\ \E i, j \in Slots(elementVector) :
       /\ intersects(TestBox, Slot(elementVector, i))
       /\ ~intersects(TestBox, Slot(elementVector, j))
       /\ contains(TestBox, Slot(elementVector, i))
       /\ ~contains(TestBox, Slot(elementVector, j))

(***************************************************************************)
(* C27.  AllocSpatialPartitioner never alters or discards a store that     *)
(* already holds entities: every entity added through any handle before    *)
(* the call, a handle not yet returned included, is still in the store of  *)
(* that handle, with the same bounds, after the call.                      *)
(***************************************************************************)
C27_AllocKeepsFilledStores ==
  regCall.op = "AllocSpatialPartitioner" =>
    \A h \in DOMAIN regPre :
      Size(regPre[h].vec) > 0 =>
        /\ h \in DOMAIN SpatialPartitionerMap
        /\ SpatialPartitionerMap[h] = regPre[h]

(***************************************************************************)
(* C28.  IntersectedBy, IntersectedByOrig and ContainedBy are read-only on *)
(* the store: after any of them returns, the dense sequence (content and   *)
(* order) and the mapping are as before the call, so the same query made   *)
(* again with no mutation in between returns the same count and the same   *)
(* ids in the same order.                                                  *)
(***************************************************************************)
Again ==
  IF call.op = "ContainedBy"
    THEN ContainedByLoop(elementVector, TestBox, call.cap, 1, EmptyMap, 0)
    ELSE IF call.op = "IntersectedBy"
           THEN IntersectedByLoop(elementVector, TestBox, call.cap, 1, EmptyMap, 0)
           ELSE IntersectedByOrigLoop(elementVector, TestBox, call.cap, 1, EmptyMap, 0)
C28_QueriesAreReadOnly ==
  Answered =>
    /\ elementVector = pre.vec
    /\ idToIndex = pre.map
    /\ Again.ret = ret
    /\ Again.returnArray = returnArray
\* A query on a store of several boxes that reported some of them.
C28_QueryThatReported ==
  /\ Answered
  /\ Size(elementVector) >= 2
  /\ ret >= 1
  /\ ret < Size(elementVector)

(***************************************************************************)
(* C30.  For every AABB built by the constructor from (id, center,         *)
(* extents), and so for every box held in a store and every query box,     *)
(* the fourth lane of the min-corner vector is zero, whatever the id.      *)
(***************************************************************************)
C30_MinCornerFourthLaneIsZero ==
  /\ \A i \in Slots(elementVector) : Slot(elementVector, i).vecmin[4] = 0
  /\ call.op \in QueryOps => TestBox.vecmin[4] = 0
\* C30 as the code has it: the lane holds the bits of the id given to the
\* constructor (id - 0.0f leaves them as they are for every id that is not a
\* signalling NaN), for a stored box and for a query box, whose id is -1.
C30_MinCornerFourthLaneHoldsTheId ==
  (call.op = "AddItem" /\ ~crashed) =>
    /\ Slot(elementVector, Size(elementVector) - 1).vecmin[4] = call.id
    /\ AABB(call.id, call.center, call.extents).vecmin[4] = call.id
    /\ AABB(-1, call.center, call.extents).vecmin[4] = -1
\* A box added with the id of bits 0x80000000 beside another box.
C30_BoxOfNegativeZeroId ==
  /\ call.op = "AddItem"
  /\ call.id = MinInt32
  /\ Size(elementVector) >= 2
  /\ Slot(elementVector, Size(elementVector) - 1).vecmin[4] # 0

(***************************************************************************)
(* C29.  After FinishExport returns, whether the export succeeded or       *)
(* failed to initialize, the group-key-to-node map is empty, so that in    *)
(* any later StartExport .. FinishExport run every mesh started with a     *)
(* non-zero groupKey is attached to a group node created in that run and   *)
(* added under that run's scene root.                                      *)
(***************************************************************************)
C29_GroupMapEmptyAfterFinishExport ==
  ~crashed =>
    /\ fbxCall.op = "FinishExport" => groupMap = EmptyMap
    /\ (fbxCall.op = "StartMesh" /\ fbxCall.ok /\ fbxCall.groupKey # MESH_GROUP_NONE) =>
         /\ fbxCall.parent.kind = "group"
         /\ fbxCall.parent.owner = manager
         /\ fbxCall.parent \in rootChildren

====
